---- MODULE Spec2Model ----
(***************************************************************************)
(* Review service: one "reviews" table behind two transport adapters, the  *)
(* standalone Express server (src/server.js) and the serverless function   *)
(* (src/unnamed/part_000).  Every await of pool.query is one step of a     *)
(* request; requests in different slots interleave at those steps.         *)
(***************************************************************************)
EXTENDS Integers, Sequences, FiniteSets, TLC

\* ------------------------------------------------------------------ bounds
MaxRequests == 3        \* requests accepted in one behaviour
MaxInFlight == 2        \* requests being served at the same time

Slots == 1..MaxInFlight

\* ------------------------------------------------------- JavaScript values
\* A value of a request field: undefined, null, a number or a string (a
\* sequence of one-character strings).  Ratings are numbers in thousandths.
Undefined == [t |-> "undefined", n |-> 0, s |-> <<>>]
Null == [t |-> "null", n |-> 0, s |-> <<>>]
Num(k) == [t |-> "number", n |-> k, s |-> <<>>]
Str(chars) == [t |-> "string", n |-> 0, s |-> chars]

\* ratings are carried one decimal digit finer than the column keeps them
RatingScale == 10 * 10 * 10

Digits == <<"0", "1", "2", "3", "4", "5", "6", "7", "8", "9">>
IsDigit(c) == \E i \in 1..10 : Digits[i] = c
DigitValue(c) == (CHOOSE i \in 1..10 : Digits[i] = c) - 1

RECURSIVE DigitsValue(_)
DigitsValue(chars) ==
  IF chars = <<>> THEN 0
  ELSE 10 * DigitsValue(SubSeq(chars, 1, Len(chars) - 1))
       + DigitValue(chars[Len(chars)])

AllDigits(chars) == \A i \in 1..Len(chars) : IsDigit(chars[i])

\* !x
Falsy(x) ==
  CASE x.t = "undefined" -> TRUE
    [] x.t = "null" -> TRUE
    [] x.t = "number" -> x.n = 0
    [] OTHER -> x.s = <<>>

\* Number(x), as the relational operators apply it; scale is the unit of
\* the field's numbers.
ToNumber(x, scale) ==
  CASE x.t = "undefined" -> [nan |-> TRUE, n |-> 0]
    [] x.t = "null" -> [nan |-> FALSE, n |-> 0]
    [] x.t = "number" -> [nan |-> FALSE, n |-> x.n]
    [] OTHER -> IF AllDigits(x.s)
                THEN [nan |-> FALSE, n |-> scale * DigitsValue(x.s)]
                ELSE [nan |-> TRUE, n |-> 0]

\* x < k and x > k: false when x converts to NaN
JsLess(x, k, scale) ==
  LET v == ToNumber(x, scale) IN ~v.nan /\ v.n < k * scale
JsGreater(x, k, scale) ==
  LET v == ToNumber(x, scale) IN ~v.nan /\ v.n > k * scale

\* parseInt(x): the leading digits of String(x), NaN when there are none
RECURSIVE LeadingDigits(_)
LeadingDigits(chars) ==
  IF chars = <<>> \/ ~IsDigit(Head(chars)) THEN <<>>
  ELSE <<Head(chars)>> \o LeadingDigits(Tail(chars))

ParseInt(x) ==
  CASE x.t = "number" -> [nan |-> FALSE, n |-> x.n]
    [] x.t = "string" ->
         IF LeadingDigits(x.s) = <<>> THEN [nan |-> TRUE, n |-> 0]
         ELSE [nan |-> FALSE, n |-> DigitsValue(LeadingDigits(x.s))]
    [] OTHER -> [nan |-> TRUE, n |-> 0]

\* const { k = d } = ...
Default(x, d) == IF x.t = "undefined" THEN d ELSE x

\* ------------------------------------------------------ the reviews table
\* Column values.  A NULL column holds Null, a text column the characters,
\* rating a NUMERIC(3,2) in hundredths (or the NUMERIC value NaN).
NumericDigits == 3      \* DECIMAL(3,2): precision
NumericScale == 2       \* DECIMAL(3,2): scale
TitleMax == 500
DateMax == 20
TimeMax == 20
SessionMax == 100
RatingLow == 0
RatingHigh == 5

RECURSIVE Pow10(_)
Pow10(k) == IF k = 0 THEN 1 ELSE 10 * Pow10(k - 1)

Hundred == Pow10(NumericScale)

\* a number in thousandths rounded to the column's scale, half away from 0
RoundToScale(n) ==
  LET f == RatingScale \div Hundred
  IN IF n >= 0 THEN (n + f \div 2) \div f ELSE 0 - ((0 - n + f \div 2) \div f)

NaNLiteral == <<"N", "a", "N">>

\* what the driver sends and the server reads for a NUMERIC parameter
NumericParam(x) ==
  CASE x.t \in {"undefined", "null"} -> [kind |-> "null", nan |-> FALSE, n |-> 0]
    [] x.t = "number" -> [kind |-> "value", nan |-> FALSE, n |-> RoundToScale(x.n)]
    [] OTHER ->
         IF x.s = NaNLiteral THEN [kind |-> "value", nan |-> TRUE, n |-> 0]
         ELSE IF x.s # <<>> /\ AllDigits(x.s)
              THEN [kind |-> "value", nan |-> FALSE,
                    n |-> Hundred * DigitsValue(x.s)]
              ELSE [kind |-> "invalid", nan |-> FALSE, n |-> 0]

\* NUMERIC(3,2) holds |v| < 10^(3-2); NaN is storable
NumericFits(v) ==
  v.nan \/ (v.n < Pow10(NumericDigits) /\ 0 - v.n < Pow10(NumericDigits))

\* faulty variant: the table without its CHECK constraint
RatingCheckOff(v) == TRUE

\* CHECK (rating >= 0 AND rating <= 5); NaN sorts above every number
RatingCheck(v) ==
  ~v.nan /\ v.n >= RatingLow * Hundred /\ v.n <= RatingHigh * Hundred

\* an INTEGER parameter
IntegerParam(x) ==
  CASE x.t \in {"undefined", "null"} -> [kind |-> "null", n |-> 0]
    [] x.t = "number" -> [kind |-> "value", n |-> x.n]
    [] OTHER -> IF x.s # <<>> /\ AllDigits(x.s)
                THEN [kind |-> "value", n |-> DigitsValue(x.s)]
                ELSE [kind |-> "invalid", n |-> 0]

\* a text parameter: undefined is sent as NULL
TextParam(x) == IF x.t = "undefined" THEN Null ELSE x

\* an INET parameter is valid when it reads as a dotted IPv4 address
DotCount(chars) == Cardinality({i \in 1..Len(chars) : chars[i] = "."})
ValidInet(chars) ==
  /\ chars # <<>>
  /\ \A i \in 1..Len(chars) : IsDigit(chars[i]) \/ chars[i] = "."
  /\ DotCount(chars) = 3
  /\ chars[1] # "." /\ chars[Len(chars)] # "."
  /\ \A i \in 1..(Len(chars) - 1) : ~(chars[i] = "." /\ chars[i + 1] = ".")

\* rows WHERE session_id = $1 AND audio_id = $2
Matching(rows, session, audio) ==
  {row \in rows : row.session_id = session.s /\ row.audio_id = audio}

\* the parameters of INSERT and UPDATE, in column terms
WriteParams(b, ip) ==
  [audio_id |-> IntegerParam(b.audioId),
   title |-> TextParam(b.title),
   rating |-> NumericParam(b.rating),
   timestamp |-> TextParam(b.timestamp),
   date |-> TextParam(b.date),
   time |-> TextParam(b.time),
   user_agent |-> TextParam(b.userAgent),
   session_id |-> TextParam(b.sessionId),
   ip_address |-> TextParam(ip)]

\* 22P02: a parameter the column type cannot read
BindError(p) ==
  \/ p.audio_id.kind = "invalid"
  \/ p.rating.kind = "invalid"
  \/ (p.ip_address.t = "string" /\ ~ValidInet(p.ip_address.s))

\* 23502, 22001, 22003, 23514 on the columns a write sets
ColumnError(p) ==
  IF \/ p.title.t = "null" \/ p.rating.kind = "null"
     \/ p.date.t = "null" \/ p.time.t = "null"
  THEN "23502"
  ELSE IF Len(p.title.s) > TitleMax \/ Len(p.date.s) > DateMax
          \/ Len(p.time.s) > TimeMax
       THEN "22001"
       ELSE IF ~NumericFits(p.rating) THEN "22003"
            ELSE IF ~RatingCheck(p.rating) THEN "23514"
                 ELSE "none"

KeyError(p) ==
  IF p.audio_id.kind = "null" \/ p.session_id.t = "null" THEN "23502"
  ELSE IF Len(p.session_id.s) > SessionMax THEN "22001" ELSE "none"

\* the row an INSERT builds: id from the sequence, both timestamps defaulted
NewRow(sq, now, p) ==
  [id |-> sq + 1,
   audio_id |-> p.audio_id.n,
   title |-> p.title.s,
   rating |-> [nan |-> p.rating.nan, n |-> p.rating.n],
   timestamp |-> p.timestamp,
   date |-> p.date.s,
   time |-> p.time.s,
   user_agent |-> p.user_agent,
   session_id |-> p.session_id.s,
   ip_address |-> p.ip_address,
   created_at |-> now,
   updated_at |-> now]

\* faulty variant: the row is written before its constraints are found violated
InsertReviewThenFail(rows, sq, now, p) ==
  IF BindError(p)
  THEN [err |-> "22P02", rows |-> rows, seq |-> sq, ids |-> {}]
  ELSE [err |-> IF KeyError(p) # "none" THEN KeyError(p) ELSE ColumnError(p),
        rows |-> rows \cup {NewRow(sq, now, p)}, seq |-> sq + 1,
        ids |-> {sq + 1}]

\* INSERT INTO reviews (...) VALUES (...) RETURNING id
InsertReview(rows, sq, now, p) ==
  IF BindError(p)
  THEN [err |-> "22P02", rows |-> rows, seq |-> sq, ids |-> {}]
  ELSE IF ColumnError(p) # "none" \/ KeyError(p) # "none"
       THEN [err |-> IF KeyError(p) # "none" THEN KeyError(p) ELSE ColumnError(p),
             rows |-> rows, seq |-> sq + 1, ids |-> {}]
       ELSE [err |-> "none",
             rows |-> rows \cup {NewRow(sq, now, p)},
             seq |-> sq + 1,
             ids |-> {sq + 1}]

\* faulty variant: the UPDATE also resets created_at
UpdateRowAlsoCreated(row, now, p) ==
  [row EXCEPT !.title = p.title.s,
              !.rating = [nan |-> p.rating.nan, n |-> p.rating.n],
              !.timestamp = p.timestamp,
              !.date = p.date.s,
              !.time = p.time.s,
              !.user_agent = p.user_agent,
              !.ip_address = p.ip_address,
              !.created_at = now,
              !.updated_at = now]

\* UPDATE reviews SET ... WHERE session_id = $8 AND audio_id = $9 RETURNING id
UpdateRow(row, now, p) ==
  [row EXCEPT !.title = p.title.s,
              !.rating = [nan |-> p.rating.nan, n |-> p.rating.n],
              !.timestamp = p.timestamp,
              !.date = p.date.s,
              !.time = p.time.s,
              !.user_agent = p.user_agent,
              !.ip_address = p.ip_address,
              !.updated_at = now]

UpdateReview(rows, sq, now, p) ==
  IF BindError(p)
  THEN [err |-> "22P02", rows |-> rows, seq |-> sq, ids |-> {}]
  ELSE LET hit == IF p.session_id.t = "null" \/ p.audio_id.kind = "null" THEN {}
                  ELSE Matching(rows, p.session_id, p.audio_id.n)
       IN IF hit # {} /\ ColumnError(p) # "none"
          THEN [err |-> ColumnError(p), rows |-> rows, seq |-> sq, ids |-> {}]
          ELSE [err |-> "none",
                rows |-> (rows \ hit) \cup {UpdateRow(row, now, p) : row \in hit},
                seq |-> sq,
                ids |-> {row.id : row \in hit}]

\* faulty variant: the existence check never finds the row
SelectExistingNone(rows, b) == [err |-> "none", ids |-> {}]

\* SELECT id FROM reviews WHERE session_id = $1 AND audio_id = $2
SelectExisting(rows, b) ==
  LET a == IntegerParam(b.audioId)
      s == TextParam(b.sessionId)
  IN IF a.kind = "invalid" THEN [err |-> "22P02", ids |-> {}]
     ELSE IF a.kind = "null" \/ s.t = "null" THEN [err |-> "none", ids |-> {}]
          ELSE [err |-> "none", ids |-> {row.id : row \in Matching(rows, s, a.n)}]

\* every ordering of a set of rows by created_at descending
Orderings(S) ==
  {f \in [1..Cardinality(S) -> S] :
     /\ \A i, j \in 1..Cardinality(S) : i # j => f[i] # f[j]
     /\ \A i, j \in 1..Cardinality(S) : i < j => f[i].created_at >= f[j].created_at}

\* ------------------------------------------------- the analytics queries
\* a bigint or a whole numeric as the driver returns it: its decimal digits
RECURSIVE DecimalDigits(_)
DecimalDigits(n) ==
  IF n < 0 THEN <<"-">> \o DecimalDigits(0 - n)
  ELSE IF n < 10 THEN <<Digits[n + 1]>>
       ELSE DecimalDigits(n \div 10) \o <<Digits[(n % 10) + 1]>>

\* SUM(rating) over a set of rows, in hundredths
RECURSIVE SumRating(_)
SumRating(S) ==
  IF S = {} THEN 0
  ELSE LET row == CHOOSE x \in S : TRUE
       IN row.rating.n + SumRating(S \ {row})

\* AVG(rating): NULL over no rows, NaN when a rating is NaN, else the exact
\* quotient sum / count (in hundredths)
Average(S) ==
  [null |-> S = {},
   nan |-> \E row \in S : row.rating.nan,
   sum |-> SumRating({row \in S : ~row.rating.nan}),
   count |-> Cardinality(S)]

\* MIN(created_at), MAX(created_at): NULL over no rows
MinCreated(S) ==
  IF S = {} THEN Null
  ELSE Num(CHOOSE t \in {row.created_at : row \in S} :
             \A row \in S : t <= row.created_at)
MaxCreated(S) ==
  IF S = {} THEN Null
  ELSE Num(CHOOSE t \in {row.created_at : row \in S} :
             \A row \in S : t >= row.created_at)

\* SELECT COUNT(*), AVG(rating), COUNT(DISTINCT session_id),
\*        COUNT(DISTINCT audio_id), MIN(created_at), MAX(created_at)
\* FROM reviews: always one row
TotalsRow(rows) ==
  [total_reviews |-> Str(DecimalDigits(Cardinality(rows))),
   average_rating |-> Average(rows),
   unique_sessions |->
     Str(DecimalDigits(Cardinality({row.session_id : row \in rows}))),
   reviewed_audios |->
     Str(DecimalDigits(Cardinality({row.audio_id : row \in rows}))),
   first_review |-> MinCreated(rows),
   latest_review |-> MaxCreated(rows)]

\* the handler's variable before its first query has answered
NoTotals ==
  [total_reviews |-> Undefined, average_rating |-> Average({}),
   unique_sessions |-> Undefined, reviewed_audios |-> Undefined,
   first_review |-> Undefined, latest_review |-> Undefined]

\* FLOOR(rating): the whole part of a rating in hundredths; FLOOR(NaN) = NaN
RatingFloor(v) == [nan |-> v.nan, n |-> IF v.nan THEN 0 ELSE v.n \div Hundred]

\* ORDER BY rating_floor: ascending, NaN above every number
FloorBefore(a, b) == ~a.nan /\ (b.nan \/ a.n < b.n)

\* COUNT(*) of one group of GROUP BY FLOOR(rating)
BucketCount(rows, bucket) ==
  Cardinality({row \in rows : RatingFloor(row.rating) = bucket})

\* SELECT FLOOR(rating) as rating_floor, COUNT(*) as count FROM reviews
\* GROUP BY FLOOR(rating) ORDER BY rating_floor
DistributionRows(rows) ==
  LET buckets == {RatingFloor(row.rating) : row \in rows}
      ordered == CHOOSE f \in [1..Cardinality(buckets) -> buckets] :
                   \A i, j \in 1..Cardinality(buckets) :
                     i < j => FloorBefore(f[i], f[j])
  IN [i \in 1..Cardinality(buckets) |->
        [rating_floor |-> IF ordered[i].nan THEN Str(NaNLiteral)
                          ELSE Str(DecimalDigits(ordered[i].n)),
         count |-> Str(DecimalDigits(BucketCount(rows, ordered[i])))]]

\* one row of GROUP BY audio_id, title
AudioGroup(rows, audio_id, title) ==
  LET members == {row \in rows : row.audio_id = audio_id /\ row.title = title}
  IN [audio_id |-> audio_id, title |-> title,
      review_count |-> Str(DecimalDigits(Cardinality(members))),
      average_rating |-> Average(members)]

\* SELECT audio_id, title, COUNT(*) as review_count, AVG(rating) FROM reviews
\* GROUP BY audio_id, title ORDER BY review_count DESC: every order the
\* sort may return
AudioStatsRows(rows) ==
  LET groups == {AudioGroup(rows, row.audio_id, row.title) : row \in rows}
      n == Cardinality(groups)
  IN {f \in [1..n -> groups] :
        /\ \A i, j \in 1..n : i # j => f[i] # f[j]
        /\ \A i, j \in 1..n :
             i < j => DigitsValue(f[i].review_count.s)
                        >= DigitsValue(f[j].review_count.s)}

\* parseFloat(avg).toFixed(2), in hundredths.  An average that lies halfway
\* between two hundredths is rounded up when the double holds it exactly
\* (its thousandths are a multiple of 125) and else to the side the nearest
\* double falls on: up says which.
ToFixed(avg, up) ==
  LET q == avg.sum \div avg.count
      rem == avg.sum % avg.count
  IN IF 2 * rem < avg.count THEN q
     ELSE IF 2 * rem > avg.count THEN q + 1
          ELSE IF (2 * q + 1) % 25 = 0 \/ up THEN q + 1 ELSE q

\* the halfway averages whose double is not exact
Halfway(avg) ==
  /\ ~avg.null /\ ~avg.nan
  /\ 2 * (avg.sum % avg.count) = avg.count
  /\ (2 * (avg.sum \div avg.count) + 1) % 25 # 0

\* the text toFixed(2) returns for a number of hundredths
FixedText(h) ==
  (IF h < 0 THEN <<"-">> ELSE <<>>)
  \o LET a == IF h < 0 THEN 0 - h ELSE h
     IN DecimalDigits(a \div Hundred) \o <<".">>
        \o <<Digits[((a \div 10) % 10) + 1], Digits[(a % 10) + 1]>>

\* parseFloat(average_rating || 0).toFixed(2)
TotalAverage(avg, up) ==
  IF avg.null THEN Str(FixedText(0))
  ELSE IF avg.nan THEN Str(NaNLiteral) ELSE Str(FixedText(ToFixed(avg, up)))

\* parseFloat(row.average_rating).toFixed(2)
GroupAverage(avg, up) ==
  IF avg.null \/ avg.nan THEN Str(NaNLiteral)
  ELSE Str(FixedText(ToFixed(avg, up)))

\* ------------------------------------------------------------- requests
VARIABLES
  reviews,          \* the rows of the reviews table
  seq,              \* last value of the id sequence (SERIAL)
  clock,            \* CURRENT_TIMESTAMP of the latest write
  started,          \* requests accepted so far
  pc,               \* per slot: where its request stands
  req,              \* per slot: the request being served
  existingReview,   \* per slot: ids the submit handler's SELECT returned
  analytics,        \* per slot: the row the analytics handler's first
                    \* query returned
  ratingDistribution, \* per slot: the rows its second query returned
  sent              \* the response the latest step wrote, with its request
                    \* and the error its catch block received; Silent when
                    \* the step wrote none

vars ==
  <<reviews, seq, clock, started, pc, req, existingReview, analytics,
    ratingDistribution, sent>>

Request(adapter, method, path, query, body, headers, remote) ==
  [adapter |-> adapter, method |-> method, path |-> path, query |-> query,
   body |-> body, headers |-> headers, remote |-> remote]

NoQuery ==
  [sessionId |-> Undefined, limit |-> Undefined, offset |-> Undefined,
   format |-> Undefined]
NoBody ==
  [audioId |-> Undefined, title |-> Undefined, rating |-> Undefined,
   timestamp |-> Undefined, date |-> Undefined, time |-> Undefined,
   userAgent |-> Undefined, sessionId |-> Undefined]
NoHeaders == [xForwardedFor |-> Undefined, xRealIp |-> Undefined]
NoRequest == Request("none", "", "", NoQuery, NoBody, NoHeaders, Undefined)

\* the analytics object of a response that carries none
NoAnalytics ==
  [totalReviews |-> [nan |-> TRUE, n |-> 0], averageRating |-> Undefined,
   uniqueSessions |-> [nan |-> TRUE, n |-> 0],
   reviewedAudios |-> [nan |-> TRUE, n |-> 0],
   firstReview |-> Undefined, latestReview |-> Undefined,
   ratingDistribution |-> <<>>, audioStats |-> <<>>]

NoResponse ==
  [status |-> 0, kind |-> "none", success |-> FALSE, error |-> "", id |-> 0,
   reviews |-> <<>>, totalCount |-> 0, pagination |-> <<>>, csv |-> <<>>,
   analytics |-> NoAnalytics]
ErrorResponse(status, message) ==
  [NoResponse EXCEPT !.status = status, !.kind = "error", !.error = message]
EmptyResponse(status) == [NoResponse EXCEPT !.status = status, !.kind = "empty"]

MissingFields == "Missing required fields: audioId, title, rating, sessionId"
RatingRange == "Rating must be between 0 and 5"
SessionRequired == "Session ID is required"
InternalError == "Internal server error"
NotFoundError == "Not found"

\* cors() answers every OPTIONS request before the routes (204, no body);
\* the function answers it with 200 and an empty body
PreflightStatus(adapter) == IF adapter = "server" THEN 204 ELSE 200

\* the handler a request is dispatched to, by method and logical path
Route(q) ==
  IF q.method = "OPTIONS" THEN "preflight"
  ELSE IF q.path = "/reviews" /\ q.method = "GET" THEN "getReviews"
  ELSE IF q.path = "/reviews" /\ q.method = "POST" THEN "submitReview"
  ELSE IF q.path = "/admin/reviews" /\ q.method = "GET" THEN "getAllReviews"
  ELSE IF q.path = "/admin/analytics" /\ q.method = "GET" THEN "getAnalytics"
  ELSE "notFound"

\* the client address a submit stores
ClientIp(adapter, q) ==
  IF adapter = "server"
  THEN q.remote
  ELSE IF ~Falsy(q.headers.xForwardedFor) THEN q.headers.xForwardedFor
       ELSE IF ~Falsy(q.headers.xRealIp) THEN q.headers.xRealIp
            ELSE Str(<<"u", "n", "k", "n", "o", "w", "n">>)

\* the two validation tests of submit, in order; "" when the body passes
MissingRequired(b) ==
  Falsy(b.audioId) \/ Falsy(b.title) \/ b.rating.t = "undefined"
    \/ Falsy(b.sessionId)
\* faulty variant: the range test without its lower half
OutOfRangeUpperOnly(b) == JsGreater(b.rating, RatingHigh, RatingScale)

OutOfRange(b) ==
  JsLess(b.rating, RatingLow, RatingScale)
    \/ JsGreater(b.rating, RatingHigh, RatingScale)
SubmitValidation(b) ==
  IF MissingRequired(b) THEN MissingFields
  ELSE IF OutOfRange(b) THEN RatingRange ELSE ""

\* faulty variant: submit inserts whatever its SELECT returned
SubmitStatementInsertOnly(adapter, q, existing, rows, sq, now) ==
  InsertReview(rows, sq, now, WriteParams(q.body, ClientIp(adapter, q)))

\* the write submit issues after its SELECT returned the ids in existing
SubmitStatement(adapter, q, existing, rows, sq, now) ==
  LET p == WriteParams(q.body, ClientIp(adapter, q))
  IN IF existing # {} THEN UpdateReview(rows, sq, now, p)
     ELSE InsertReview(rows, sq, now, p)

\* parseFloat(row.rating), in hundredths
ParseFloat(v) == [nan |-> v.nan, n |-> v.n]

PublicReview(row) ==
  [id |-> row.id, audioId |-> row.audio_id, title |-> row.title,
   rating |-> ParseFloat(row.rating), timestamp |-> row.timestamp,
   date |-> row.date, time |-> row.time, sessionId |-> row.session_id,
   createdAt |-> row.created_at]

AdminReview(row) ==
  [id |-> row.id, audioId |-> row.audio_id, title |-> row.title,
   rating |-> ParseFloat(row.rating), timestamp |-> row.timestamp,
   date |-> row.date, time |-> row.time, userAgent |-> row.user_agent,
   sessionId |-> row.session_id, ipAddress |-> row.ip_address,
   createdAt |-> row.created_at, updatedAt |-> row.updated_at]

SeqMap(Op(_), sq) == [i \in 1..Len(sq) |-> Op(sq[i])]

Min(a, b) == IF a < b THEN a ELSE b

\* ORDER BY created_at DESC LIMIT $1 OFFSET $2 over an ordering of the table
Page(ordered, limit, offset) ==
  SubSeq(ordered, offset + 1, Min(Len(ordered), offset + limit))

\* totalCount of the JSON page: the window count carried by the first row
TotalCount(page, tableSize) == IF Len(page) > 0 THEN tableSize ELSE 0

DefaultLimit == 1000
DefaultOffset == 0

\* title.replace(/"/g, '""') between double quotes
RECURSIVE DoubleQuotes(_)
DoubleQuotes(chars) ==
  IF chars = <<>> THEN <<>>
  ELSE (IF Head(chars) = "\"" THEN <<"\"", "\"">> ELSE <<Head(chars)>>)
       \o DoubleQuotes(Tail(chars))
CsvTitle(chars) == <<"\"">> \o DoubleQuotes(chars) \o <<"\"">>

CsvLine(review) ==
  <<review.id, review.audioId, CsvTitle(review.title), review.rating,
    review.date, review.time, review.sessionId, review.ipAddress,
    review.createdAt>>

Sent(q, response, error) == [req |-> q, resp |-> response, caught |-> error]
Silent == Sent(NoRequest, NoResponse, "none")

\* the handler returns: the response goes out and the slot is free again
Finish(r, response, error) ==
  /\ sent' = Sent(req[r], response, error)
  /\ pc' = [pc EXCEPT ![r] = "idle"]
  /\ req' = [req EXCEPT ![r] = NoRequest]
  /\ existingReview' = [existingReview EXCEPT ![r] = {}]
  /\ analytics' = [analytics EXCEPT ![r] = NoTotals]
  /\ ratingDistribution' = [ratingDistribution EXCEPT ![r] = <<>>]

\* the handler returns before its first await
Reply(q, response) ==
  /\ sent' = Sent(q, response, "none")
  /\ UNCHANGED <<pc, req>>

\* the handler awaits its first query
Proceed(r, q, label) ==
  /\ pc' = [pc EXCEPT ![r] = label]
  /\ req' = [req EXCEPT ![r] = q]
  /\ sent' = Silent

\* a request arrives and takes the first slot that serves none
Accept(r) ==
  /\ pc[r] = "idle"
  /\ \A r2 \in Slots : r2 < r => pc[r2] # "idle"
  /\ started < MaxRequests
  /\ started' = started + 1

Init ==
  /\ reviews = {}
  /\ seq = 0
  /\ clock = 1
  /\ started = 0
  /\ pc = [r \in Slots |-> "idle"]
  /\ req = [r \in Slots |-> NoRequest]
  /\ existingReview = [r \in Slots |-> {}]
  /\ analytics = [r \in Slots |-> NoTotals]
  /\ ratingDistribution = [r \in Slots |-> <<>>]
  /\ sent = Silent

\* OPTIONS: answered without a handler
Preflight(r, q) ==
  /\ Accept(r)
  /\ Route(q) = "preflight"
  /\ Reply(q, EmptyResponse(PreflightStatus(q.adapter)))
  /\ UNCHANGED <<reviews, seq, clock, existingReview, analytics, ratingDistribution>>

\* no route matches
NotFound(r, q) ==
  /\ Accept(r)
  /\ Route(q) = "notFound"
  /\ Reply(q, ErrorResponse(404, NotFoundError))
  /\ UNCHANGED <<reviews, seq, clock, existingReview, analytics, ratingDistribution>>

\* GET /reviews up to its query
GetReviewsBegin(r, q) ==
  /\ Accept(r)
  /\ Route(q) = "getReviews"
  /\ IF Falsy(q.query.sessionId)
     THEN Reply(q, ErrorResponse(400, SessionRequired))
     ELSE Proceed(r, q, "list")
  /\ UNCHANGED <<reviews, seq, clock, existingReview, analytics, ratingDistribution>>

\* faulty variant: the query without its WHERE clause
SessionRowsAll(rows, sessionId) == rows

\* SELECT * FROM reviews WHERE session_id = $1 ORDER BY created_at DESC
SessionRows(rows, sessionId) ==
  {row \in rows : row.session_id = sessionId.s}

GetReviewsResponse(ordered) ==
  [NoResponse EXCEPT !.status = 200, !.kind = "reviews", !.success = TRUE,
                     !.reviews = SeqMap(PublicReview, ordered)]

GetReviewsQuery(r) ==
  /\ pc[r] = "list"
  /\ \E ordered \in Orderings(SessionRows(reviews, req[r].query.sessionId)) :
       Finish(r, GetReviewsResponse(ordered), "none")
  /\ UNCHANGED <<reviews, seq, clock, started>>

\* POST /reviews up to its first query
SubmitBegin(r, q) ==
  /\ Accept(r)
  /\ Route(q) = "submitReview"
  /\ IF SubmitValidation(q.body) # ""
     THEN Reply(q, ErrorResponse(400, SubmitValidation(q.body)))
     ELSE Proceed(r, q, "select")
  /\ UNCHANGED <<reviews, seq, clock, existingReview, analytics, ratingDistribution>>

\* the existence check
SubmitSelect(r) ==
  /\ pc[r] = "select"
  /\ LET found == SelectExisting(reviews, req[r].body)
     IN IF found.err # "none"
        THEN Finish(r, ErrorResponse(500, InternalError), found.err)
        ELSE /\ pc' = [pc EXCEPT ![r] = "write"]
             /\ existingReview' = [existingReview EXCEPT ![r] = found.ids]
             /\ sent' = Silent
             /\ UNCHANGED <<req, analytics, ratingDistribution>>
  /\ UNCHANGED <<reviews, seq, clock, started>>

\* CURRENT_TIMESTAMP of a write: time has passed since the last one, or not
Now == {clock, clock + 1}

SubmitResponse(id) ==
  [NoResponse EXCEPT !.status = 200, !.kind = "submitted", !.success = TRUE,
                     !.id = id]

\* the UPDATE or INSERT, and the response
SubmitWrite(r) ==
  /\ pc[r] = "write"
  /\ \E now \in Now :
       LET out == SubmitStatement(req[r].adapter, req[r], existingReview[r],
                                  reviews, seq, now)
       IN /\ reviews' = out.rows
          /\ seq' = out.seq
          /\ clock' = IF out.err = "none" THEN now ELSE clock
          /\ IF out.err # "none"
             THEN Finish(r, ErrorResponse(500, InternalError), out.err)
             ELSE IF out.ids = {}
                  THEN Finish(r, ErrorResponse(500, InternalError), "TypeError")
                  ELSE \E id \in out.ids : Finish(r, SubmitResponse(id), "none")
  /\ UNCHANGED started

\* GET /admin/reviews up to its query
GetAllBegin(r, q) ==
  /\ Accept(r)
  /\ Route(q) = "getAllReviews"
  /\ Proceed(r, q, "page")
  /\ UNCHANGED <<reviews, seq, clock, existingReview, analytics, ratingDistribution>>

Json == Str(<<"j", "s", "o", "n">>)
Csv == Str(<<"c", "s", "v">>)

GetAllResponse(q, ordered) ==
  LET limit == ParseInt(Default(q.query.limit, Num(DefaultLimit)))
      offset == ParseInt(Default(q.query.offset, Num(DefaultOffset)))
      page == SeqMap(AdminReview, Page(ordered, limit.n, offset.n))
  IN IF Default(q.query.format, Json) = Csv
     THEN [NoResponse EXCEPT !.status = 200, !.kind = "csv",
                             !.csv = SeqMap(CsvLine, page)]
     ELSE [NoResponse EXCEPT !.status = 200, !.kind = "page", !.success = TRUE,
                             !.reviews = page,
                             !.totalCount = TotalCount(page, Len(ordered)),
                             !.pagination = <<limit.n, offset.n>>]

\* SELECT r.*, COUNT(*) OVER() ... ORDER BY r.created_at DESC LIMIT $1 OFFSET $2
GetAllQuery(r) ==
  /\ pc[r] = "page"
  /\ LET limit == ParseInt(Default(req[r].query.limit, Num(DefaultLimit)))
         offset == ParseInt(Default(req[r].query.offset, Num(DefaultOffset)))
     IN IF limit.nan \/ offset.nan
        THEN Finish(r, ErrorResponse(500, InternalError), "22P02")
        ELSE \E ordered \in Orderings(reviews) :
               Finish(r, GetAllResponse(req[r], ordered), "none")
  /\ UNCHANGED <<reviews, seq, clock, started>>

\* GET /admin/analytics up to its first query
GetAnalyticsBegin(r, q) ==
  /\ Accept(r)
  /\ Route(q) = "getAnalytics"
  /\ Proceed(r, q, "totals")
  /\ UNCHANGED <<reviews, seq, clock, existingReview, analytics, ratingDistribution>>

\* the first query: the totals row
AnalyticsTotals(r) ==
  /\ pc[r] = "totals"
  /\ analytics' = [analytics EXCEPT ![r] = TotalsRow(reviews)]
  /\ pc' = [pc EXCEPT ![r] = "distribution"]
  /\ sent' = Silent
  /\ UNCHANGED <<reviews, seq, clock, started, req, existingReview,
                 ratingDistribution>>

\* the second query: the rating histogram
AnalyticsDistribution(r) ==
  /\ pc[r] = "distribution"
  /\ ratingDistribution' =
       [ratingDistribution EXCEPT ![r] = DistributionRows(reviews)]
  /\ pc' = [pc EXCEPT ![r] = "audioStats"]
  /\ sent' = Silent
  /\ UNCHANGED <<reviews, seq, clock, started, req, existingReview, analytics>>

\* audioStats.rows.map(...); ups holds the positions whose halfway average
\* the double rounds up
AudioStat(audioStats, ups) ==
  [i \in 1..Len(audioStats) |->
     [audioId |-> audioStats[i].audio_id,
      title |-> audioStats[i].title,
      reviewCount |-> ParseInt(audioStats[i].review_count),
      averageRating |-> GroupAverage(audioStats[i].average_rating, i \in ups)]]

GetAnalyticsResponse(totals, distribution, audioStats, ups) ==
  [NoResponse EXCEPT
     !.status = 200, !.kind = "analytics", !.success = TRUE,
     !.analytics =
       [totalReviews |-> ParseInt(totals.total_reviews),
        averageRating |-> TotalAverage(totals.average_rating, 0 \in ups),
        uniqueSessions |-> ParseInt(totals.unique_sessions),
        reviewedAudios |-> ParseInt(totals.reviewed_audios),
        firstReview |-> totals.first_review,
        latestReview |-> totals.latest_review,
        ratingDistribution |-> distribution,
        audioStats |-> AudioStat(audioStats, ups)]]

\* the third query, the per-audio statistics, and the response
AnalyticsAudioStats(r) ==
  /\ pc[r] = "audioStats"
  /\ \E audioStats \in AudioStatsRows(reviews) :
       \E ups \in SUBSET ((IF Halfway(analytics[r].average_rating)
                            THEN {0} ELSE {})
                           \cup {i \in 1..Len(audioStats) :
                                   Halfway(audioStats[i].average_rating)}) :
         Finish(r, GetAnalyticsResponse(analytics[r], ratingDistribution[r],
                                        audioStats, ups), "none")
  /\ UNCHANGED <<reviews, seq, clock, started>>

\* pool.query rejects (connection lost, server error): the catch block answers
QueryFails(r) ==
  /\ pc[r] \in {"list", "select", "write", "page", "totals", "distribution",
                "audioStats"}
  /\ Finish(r, ErrorResponse(500, InternalError), "connection")
  /\ UNCHANGED <<reviews, seq, clock, started>>

\* --------------------------------------------------------------- inputs
S1 == Str(<<"s", "1">>)
S2 == Str(<<"s", "2">>)
TitleA == Str(<<"a">>)
TitleQ == Str(<<"\"", "b">>)
Ip1 == Str(<<"1", ".", "1", ".", "1", ".", "1">>)
Ip2 == Str(<<"2", ".", "2", ".", "2", ".", "2">>)
Ip9 == Str(<<"9", ".", "9", ".", "9", ".", "9">>)

Body(audioId, title, rating, sessionId, meta) ==
  [audioId |-> audioId, title |-> title, rating |-> rating,
   timestamp |-> meta[1], date |-> meta[2], time |-> meta[3],
   userAgent |-> meta[4], sessionId |-> sessionId]

Meta1 == <<Str(<<"t", "1">>), Str(<<"d", "1">>), Str(<<"h", "1">>), Str(<<"u", "1">>)>>
Meta2 == <<Str(<<"t", "2">>), Str(<<"d", "2">>), Str(<<"h", "2">>), Undefined>>
MetaNone == <<Undefined, Undefined, Undefined, Undefined>>

Forwarded == [xForwardedFor |-> Ip1, xRealIp |-> Undefined]
RealIp == [xForwardedFor |-> Undefined, xRealIp |-> Ip2]

Submit(adapter, body, headers) ==
  Request(adapter, "POST", "/reviews", NoQuery, body, headers, Ip9)
List(adapter, sessionId) ==
  Request(adapter, "GET", "/reviews", [NoQuery EXCEPT !.sessionId = sessionId],
          NoBody, NoHeaders, Ip9)
Analytics(adapter) ==
  Request(adapter, "GET", "/admin/analytics", NoQuery, NoBody, NoHeaders, Ip9)
Admin(adapter, limit, offset, format) ==
  Request(adapter, "GET", "/admin/reviews",
          [NoQuery EXCEPT !.limit = limit, !.offset = offset, !.format = format],
          NoBody, NoHeaders, Ip9)

Begin(r, q) ==
  \/ Preflight(r, q)
  \/ NotFound(r, q)
  \/ GetReviewsBegin(r, q)
  \/ SubmitBegin(r, q)
  \/ GetAllBegin(r, q)
  \/ GetAnalyticsBegin(r, q)

Step(r) ==
  \/ GetReviewsQuery(r)
  \/ SubmitSelect(r)
  \/ SubmitWrite(r)
  \/ GetAllQuery(r)
  \/ AnalyticsTotals(r)
  \/ AnalyticsDistribution(r)
  \/ AnalyticsAudioStats(r)
  \/ QueryFails(r)

\* submits alone, interleaved at their queries
SubmitRequests ==
  {Submit("server", Body(Num(1), TitleA, Num(4567), S1, Meta1), NoHeaders),
   Submit("function", Body(Num(1), TitleQ, Num(500), S1, Meta2), Forwarded),
   Submit("server", Body(Num(2), TitleA, Num(5000), S1, Meta1), NoHeaders),
   Submit("server", Body(Num(1), TitleA, Num(6000), S1, Meta1), NoHeaders),
   Submit("server", Body(Num(1), TitleA, Null, S1, Meta1), NoHeaders),
   Submit("function", Body(Num(1), TitleA, Str(NaNLiteral), S1, Meta1), Forwarded)}

NextSubmit ==
  \E r \in Slots :
    \/ \E q \in SubmitRequests : SubmitBegin(r, q)
    \/ SubmitSelect(r)
    \/ SubmitWrite(r)
    \/ QueryFails(r)

SpecSubmit == Init /\ [][NextSubmit]_vars

\* submits and analytics requests, interleaved at their queries
AnalyticsRequests ==
  {Submit("server", Body(Num(1), TitleA, Num(4567), S1, Meta1), NoHeaders),
   Submit("function", Body(Num(1), TitleA, Num(5000), S2, Meta2), Forwarded),
   Submit("server", Body(Num(2), TitleQ, Num(500), S1, Meta1), NoHeaders),
   Analytics("server"),
   Analytics("function")}

NextAnalytics ==
  \E r \in Slots :
    \/ \E q \in AnalyticsRequests : SubmitBegin(r, q)
    \/ \E q \in AnalyticsRequests : GetAnalyticsBegin(r, q)
    \/ SubmitSelect(r)
    \/ SubmitWrite(r)
    \/ AnalyticsTotals(r)
    \/ AnalyticsDistribution(r)
    \/ AnalyticsAudioStats(r)
    \/ QueryFails(r)

SpecAnalytics == Init /\ [][NextAnalytics]_vars

\* every route, one request at a time
BaseBody == Body(Num(1), TitleA, Num(4567), S1, Meta1)

SeqSubmits ==
  {Submit("server", BaseBody, NoHeaders),
   Submit("server", BaseBody, Forwarded),
   Submit("function", BaseBody, Forwarded),
   Submit("function", BaseBody, NoHeaders),
   Submit("function", Body(Num(1), TitleQ, Num(500), S1, Meta2), RealIp),
   Submit("server", Body(Num(2), TitleA, Num(5000), S1, Meta1), NoHeaders),
   Submit("server", Body(Str(<<"1">>), TitleA, Num(0), S2, Meta2), NoHeaders),
   Submit("server", Body(Num(1), TitleA, Num(4996), S1, MetaNone), NoHeaders)}
  \cup {Submit("server", [BaseBody EXCEPT !.rating = x], NoHeaders) :
          x \in {Undefined, Null, Str(<<"x">>), Str(NaNLiteral), Str(<<"7">>),
                 Num(6000), Num(5001), Num(0 - 1)}}
  \cup {Submit("server", [BaseBody EXCEPT !.audioId = x], NoHeaders) :
          x \in {Undefined, Num(0), Str(<<"x">>)}}
  \cup {Submit("function", [BaseBody EXCEPT !.title = x], Forwarded) :
          x \in {Undefined, Str(<<>>)}}
  \cup {Submit("server", [BaseBody EXCEPT !.sessionId = x], NoHeaders) :
          x \in {Undefined, Str(<<>>)}}
  \cup {Submit("function", [BaseBody EXCEPT !.rating = Num(6000), !.title = Undefined],
               NoHeaders),
        Submit("server", [BaseBody EXCEPT !.rating = Num(0 - 1), !.audioId = Num(0)],
               NoHeaders),
        Submit("function", [BaseBody EXCEPT !.rating = Num(0 - 1), !.sessionId = S2],
               NoHeaders)}

SeqRequests ==
  SeqSubmits
  \cup {List("server", S1), List("function", S2), List("server", Undefined),
        List("function", Str(<<>>))}
  \cup {Admin("server", Undefined, Undefined, Undefined),
        Admin("function", Str(<<"1">>), Str(<<"1">>), Undefined),
        Admin("server", Str(<<"0">>), Undefined, Json),
        Admin("function", Undefined, Str(<<"2">>), Undefined),
        Admin("server", Str(<<"x">>), Undefined, Undefined),
        Admin("function", Undefined, Undefined, Csv)}
  \cup {Request(a, m, p, NoQuery, NoBody, NoHeaders, Ip9) :
          a \in {"server", "function"},
          m \in {"OPTIONS", "DELETE"},
          p \in {"/reviews"}}
  \cup {Request("server", "GET", "/nope", NoQuery, NoBody, NoHeaders, Ip9)}
  \cup {Analytics("function")}

NextSeq ==
  \/ \E q \in SeqRequests : Begin(1, q)
  \/ Step(1)

SpecSeq == Init /\ [][NextSeq]_vars

\* ---------------------------------------------------------------- claims
\* the (session, audio) pair a submit names, and the rows of a pair
PairSession(q) == q.body.sessionId.s
PairAudio(q) ==
  IF q.body.audioId.t = "number" THEN q.body.audioId.n
  ELSE DigitsValue(q.body.audioId.s)
RowsOfPair(rows, session, audio) ==
  {row \in rows : row.session_id = session /\ row.audio_id = audio}
Ids(rows) == {row.id : row \in rows}

\* C1: with one request served at a time, every successful submit leaves
\* exactly one row for its (sessionId, audioId) and returns that row's id;
\* when the pair already had a row (an earlier submit created it), the id
\* returned is that row's id and no row is added.
C1_ResubmitUpdatesSameRow ==
  [][sent'.resp.kind = "submitted" =>
       LET rowsBefore == RowsOfPair(reviews, PairSession(sent'.req), PairAudio(sent'.req))
           rowsAfter == RowsOfPair(reviews', PairSession(sent'.req), PairAudio(sent'.req))
       IN /\ Cardinality(rowsAfter) = 1
          /\ Ids(rowsAfter) = {sent'.resp.id}
          /\ rowsBefore # {} =>
               /\ Ids(rowsBefore) = {sent'.resp.id}
               /\ Cardinality(reviews') = Cardinality(reviews)]_vars

\* a second submit for a pair has updated the row the first one created
C1_Witness ==
  /\ sent.resp.kind = "submitted"
  /\ \E row \in reviews : row.id = sent.resp.id /\ row.updated_at > row.created_at

\* C2: a second row for a pair that already has one is added only by a
\* submit whose own SELECT, issued earlier, had found no row for the pair;
\* two interleaved submits do reach a table with two rows for one pair.
C2_SecondRowOnlyAfterStaleCheck ==
  [][\A row \in reviews' :
       (row.id \notin Ids(reviews)
          /\ RowsOfPair(reviews, row.session_id, row.audio_id) # {}) =>
         \E r \in Slots :
           /\ pc[r] = "write" /\ pc'[r] = "idle"
           /\ existingReview[r] = {}
           /\ PairSession(req[r]) = row.session_id
           /\ PairAudio(req[r]) = row.audio_id]_vars

\* two rows for the same (session_id, audio_id)
C2_TwoRowsSamePair ==
  \E x, y \in reviews :
    x.id # y.id /\ x.session_id = y.session_id /\ x.audio_id = y.audio_id

\* C3: every stored rating is a number between 0.00 and 5.00 (in hundredths).
C3_RatingInRange ==
  \A row \in reviews :
    ~row.rating.nan /\ row.rating.n >= 0 /\ row.rating.n <= 500

\* the table holds a row and has just refused a rating its CHECK rejects
C3_Witness == reviews # {} /\ sent.caught = "23514"

IsSubmit(q) == q.method = "POST" /\ q.path = "/reviews"

\* the step that accepted the request also answered it: no query was issued
AnsweredAtOnce == started' = started + 1 /\ pc' = pc

NumericString(x) == x.t = "string" /\ x.s # <<>> /\ AllDigits(x.s)

\* a rating below 0 or above 5, as a number or as the digits of one
RatingOutside(x) ==
  \/ x.t = "number" /\ (x.n < 0 \/ x.n > 5 * RatingScale)
  \/ NumericString(x) /\ DigitsValue(x.s) > 5

\* C4: a submit whose rating is below 0 or above 5 is answered 400 by the
\* step that accepted it, with the table and the id sequence untouched.
C4_OutOfRangeIs400 ==
  [][(IsSubmit(sent'.req) /\ RatingOutside(sent'.req.body.rating)) =>
       /\ sent'.resp.status = 400
       /\ AnsweredAtOnce
       /\ reviews' = reviews /\ seq' = seq]_vars

\* a rating below 0 was refused while the table held rows
C4_Witness ==
  /\ sent.resp.status = 400 /\ sent.resp.error = RatingRange
  /\ sent.req.body.rating.n < 0
  /\ reviews # {}

\* a required field of the body is missing (audioId, title, rating, sessionId)
Absent(x) == x.t \in {"undefined", "null"} \/ (x.t = "string" /\ x.s = <<>>)
FieldMissing(b) ==
  \/ Absent(b.audioId) \/ Absent(b.title) \/ Absent(b.sessionId)
  \/ b.rating.t \in {"undefined", "null"}
  \/ (b.rating.t = "string" /\ ~NumericString(b.rating))
\* a body with every required field and a numeric rating in [0,5]
WellFormed(b) ==
  /\ b.audioId.t = "number"
  /\ b.title.t = "string" /\ b.title.s # <<>>
  /\ b.sessionId.t = "string" /\ b.sessionId.s # <<>>
  /\ b.rating.t = "number" /\ b.rating.n >= 0 /\ b.rating.n <= 5 * RatingScale

\* C5: a submit with a required field missing (audioId, title, sessionId
\* absent or empty; rating undefined, null or not numeric) is answered 400
\* before any query; one with every field and a numeric rating in [0,5],
\* audioId 0 included, is not answered 400.
C5_MissingFieldIs400 ==
  [][IsSubmit(sent'.req) =>
       /\ FieldMissing(sent'.req.body) =>
            (sent'.resp.status = 400 /\ AnsweredAtOnce)
       /\ WellFormed(sent'.req.body) => sent'.resp.status # 400]_vars

IsList(q) == q.method = "GET" /\ q.path = "/reviews"

\* the value of a numeric rating, in thousandths
RatingValue(x) == IF x.t = "number" THEN x.n ELSE RatingScale * DigitsValue(x.s)

\* a list response holds exactly the rows of its session, each mapped field
\* by field, newest first
ListExact ==
  sent.resp.kind = "reviews" =>
    LET s == sent.req.query.sessionId.s
        out == sent.resp.reviews
        mine == {row \in reviews : row.session_id = s}
    IN /\ sent.resp.status = 200 /\ sent.resp.success
       /\ Len(out) = Cardinality(mine)
       /\ {out[i].id : i \in 1..Len(out)} = Ids(mine)
       /\ \A i \in 1..Len(out) :
            \E row \in mine :
              /\ out[i].id = row.id /\ out[i].audioId = row.audio_id
              /\ out[i].title = row.title /\ out[i].rating = row.rating
              /\ out[i].timestamp = row.timestamp /\ out[i].date = row.date
              /\ out[i].time = row.time /\ out[i].sessionId = row.session_id
              /\ out[i].createdAt = row.created_at
       /\ \A i, j \in 1..Len(out) : i < j => out[i].createdAt >= out[j].createdAt

\* a list request without sessionId is answered 400 before any query
ListNeedsSession ==
  (IsList(sent'.req) /\ Absent(sent'.req.query.sessionId)) =>
    (sent'.resp.status = 400 /\ AnsweredAtOnce)

\* a row changes only in a successful submit for its own pair
RowsKeptByOthers ==
  \A row \in reviews :
    row \notin reviews' =>
      /\ sent'.resp.kind = "submitted"
      /\ PairSession(sent'.req) = row.session_id
      /\ PairAudio(sent'.req) = row.audio_id

\* after a successful submit of (s, a, r) the table holds a row of s with
\* audio a and rating exactly r
SubmittedRatingExact ==
  sent'.resp.kind = "submitted" =>
    \E row \in reviews' :
      /\ row.session_id = PairSession(sent'.req)
      /\ row.audio_id = PairAudio(sent'.req)
      /\ ~row.rating.nan
      /\ row.rating.n * RatingScale = RatingValue(sent'.req.body.rating) * 100

\* ... and rating r rounded to two decimals
SubmittedRatingRounded ==
  sent'.resp.kind = "submitted" =>
    \E row \in reviews' :
      /\ row.session_id = PairSession(sent'.req)
      /\ row.audio_id = PairAudio(sent'.req)
      /\ ~row.rating.nan
      /\ 2 * (row.rating.n * RatingScale - RatingValue(sent'.req.body.rating) * 100)
           \in (0 - RatingScale)..RatingScale

\* C6 as stated: the list for s is exactly the rows of s, newest first (empty
\* when s has none, 400 without a query when sessionId is absent); after a
\* successful submit of (s, a, r), and until a later submit for (s, a), the
\* rows of s hold one with audio a and rating r.
C6_ListShowsSubmittedRating ==
  [][ListExact' /\ ListNeedsSession /\ RowsKeptByOthers
       /\ SubmittedRatingExact]_vars

\* C6 amended: the same, with the rating r rounded to two decimal places.
C6_ListShowsRoundedRating ==
  [][ListExact' /\ ListNeedsSession /\ RowsKeptByOthers
       /\ SubmittedRatingRounded]_vars

\* a list of two reviews, one of them submitted as 4.567 and shown as 4.57
C6_Witness ==
  /\ sent.resp.kind = "reviews"
  /\ Len(sent.resp.reviews) = 2
  /\ \E i \in 1..2 : sent.resp.reviews[i].rating = [nan |-> FALSE, n |-> 457]

\* limit and offset as the request gives them (1000 and 0 when absent)
AskedLimit(q) ==
  IF q.query.limit.t = "undefined" THEN 1000 ELSE DigitsValue(q.query.limit.s)
AskedOffset(q) ==
  IF q.query.offset.t = "undefined" THEN 0 ELSE DigitsValue(q.query.offset.s)

\* C7: the JSON admin page reports totalCount = number of rows of the table,
\* whatever limit and offset, and its reviews are the rows at positions
\* offset..offset+limit-1 of the table ordered by created_at descending.
C7_TotalCountIsTableSize ==
  sent.resp.kind = "page" =>
    /\ sent.resp.totalCount = Cardinality(reviews)
    /\ \E ordered \in Orderings(reviews) :
         LET first == AskedOffset(sent.req) + 1
             last == Min(Len(ordered), AskedOffset(sent.req) + AskedLimit(sent.req))
         IN [i \in 1..Len(sent.resp.reviews) |-> sent.resp.reviews[i].id]
              = [i \in 1..Len(SubSeq(ordered, first, last)) |->
                   SubSeq(ordered, first, last)[i].id]

Kept(row) == \E after \in reviews' : after.id = row.id

\* a row changes only in a successful submit for its pair, and then not in
\* the columns listed
C9_Frame(fixed(_, _)) ==
  \A row \in reviews :
    /\ Kept(row)
    /\ \A after \in reviews' :
         after.id = row.id =>
           /\ fixed(row, after)
           /\ after # row =>
                /\ sent'.resp.kind = "submitted"
                /\ PairSession(sent'.req) = row.session_id
                /\ PairAudio(sent'.req) = row.audio_id

KeyFixed(row, after) ==
  /\ after.audio_id = row.audio_id
  /\ after.session_id = row.session_id
  /\ after.created_at = row.created_at

KeyAndDateFixed(row, after) ==
  /\ KeyFixed(row, after)
  /\ after.date = row.date
  /\ after.time = row.time

\* C9 as stated: a resubmission changes only title, rating, timestamp,
\* user_agent, ip_address and updated_at of the pair's row (id, audio_id,
\* session_id, date, time, created_at stay), no other row changes and no
\* row is ever deleted.
C9_DateAndTimeKept == [][C9_Frame(KeyAndDateFixed)]_vars

\* C9 amended: date and time may change too; id, audio_id, session_id and
\* created_at stay, no other row changes and no row is ever deleted.
C9_KeyAndCreatedKept == [][C9_Frame(KeyFixed)]_vars

\* a resubmission has rewritten a row while another pair's row stood by
C9_Witness ==
  /\ sent.resp.kind = "submitted"
  /\ \E row, other \in reviews :
       /\ row.id = sent.resp.id /\ row.updated_at > row.created_at
       /\ row.date = <<"d", "2">>
       /\ other.id # row.id /\ other.audio_id # row.audio_id

\* C10: on the same table and the same request both adapters write the same
\* rows and return the same result; OPTIONS is answered 200 with an empty
\* body and an unmatched route 404 "Not found" by both.
C10_AdaptersAgree ==
  /\ \A r \in Slots :
       pc[r] = "write" =>
         \A now \in Now :
           SubmitStatement("server", req[r], existingReview[r], reviews, seq, now)
             = SubmitStatement("function", req[r], existingReview[r], reviews, seq, now)
  /\ sent.req.method = "OPTIONS" =>
       (sent.resp.status = 200 /\ sent.resp.kind = "empty")
  /\ (sent.req.method = "DELETE" \/ sent.req.path = "/nope") =>
       (sent.resp.status = 404 /\ sent.resp.error = "Not found")

\* the counts of the histogram rows, and the review counts of the per-audio
\* rows, added up
RECURSIVE BucketTotal(_)
BucketTotal(rows) ==
  IF rows = <<>> THEN 0
  ELSE DigitsValue(Head(rows).count.s) + BucketTotal(Tail(rows))
RECURSIVE ReviewTotal(_)
ReviewTotal(stats) ==
  IF stats = <<>> THEN 0
  ELSE Head(stats).reviewCount.n + ReviewTotal(Tail(stats))

IsAnalytics == sent.resp.kind = "analytics"

BucketsAddUp ==
  BucketTotal(sent.resp.analytics.ratingDistribution)
    = sent.resp.analytics.totalReviews.n
AudioStatsAddUp ==
  ReviewTotal(sent.resp.analytics.audioStats)
    = sent.resp.analytics.totalReviews.n
BucketsKeyedAscending ==
  LET d == sent.resp.analytics.ratingDistribution
  IN /\ \A i \in 1..Len(d) :
          /\ d[i].rating_floor.s # <<>> /\ AllDigits(d[i].rating_floor.s)
          /\ DigitsValue(d[i].rating_floor.s) \in RatingLow..RatingHigh
     /\ \A i, j \in 1..Len(d) :
          i < j => DigitsValue(d[i].rating_floor.s)
                     < DigitsValue(d[j].rating_floor.s)
EmptyTableAnswer ==
  reviews = {} =>
    /\ sent.resp.analytics.totalReviews = [nan |-> FALSE, n |-> 0]
    /\ sent.resp.analytics.averageRating = Str(<<"0", ".", "0", "0">>)
    /\ sent.resp.analytics.ratingDistribution = <<>>
    /\ sent.resp.analytics.audioStats = <<>>

\* C11: every analytics response is consistent, also when submits interleave
\* with its three queries: the bucket counts of ratingDistribution add up to
\* totalReviews and so do the reviewCount values of audioStats; the buckets
\* are keyed 0..5 in ascending order; on an empty table the response has
\* totalReviews 0, averageRating "0.00" and both lists empty.
C11_AnalyticsConsistent ==
  IsAnalytics =>
    /\ BucketsAddUp
    /\ AudioStatsAddUp
    /\ BucketsKeyedAscending
    /\ EmptyTableAnswer

====
